---- MODULE Spec2Model ----
(***************************************************************************)
(* Model of googlecl/calendar/service.py: the calendar command handlers    *)
(* (list, today, add, delete), the client methods they call (get_events,   *)
(* quick_add_event, delete_events, _batch_delete_recur) and the date-range *)
(* parser get_start_and_end.                                               *)
(*                                                                         *)
(* Python strings are sequences of tokens (a date, a word or a character   *)
(* is one token; "," and "/" are the separator tokens the code splits on). *)
(* A Python value that may be None is a record [t, s]: t = "none" for      *)
(* None, t = "str" for a string with tokens s.                             *)
(***************************************************************************)
EXTENDS Integers, Sequences, FiniteSets, TLC

VARIABLES
  prompt_for_delete, \* the client's setting, fixed by its constructor (line 49)
  pc,               \* "idle", "loop" (line 90), "prompt" (line 94), "done", "error"
  cmd,              \* the task being run: "none", "list", "today", "add", "delete"
  opts,             \* options / client settings of the run
  events,           \* what get_events returned to _run_list / _run_delete
  single_events,    \* delete_events, line 73
  recurring_events, \* delete_events, line 75
  start_date,       \* delete_events, lines 81-85
  end_date,         \* delete_events, lines 81-85
  idx,              \* position of the for loop of line 90 in recurring_events
  delete_selection, \* delete_events, lines 92-95
  typed,            \* what the latest raw_input of this iteration returned
  calls,            \* remote requests issued so far, oldest first
  stdout,           \* lines printed so far
  err,              \* the unhandled exception that ended the run, or "none"
  result,           \* the value quick_add_event returned
  last_parse        \* argument and result of the latest get_start_and_end call

vars == <<prompt_for_delete, pc, cmd, opts, events, single_events, recurring_events, start_date,
          end_date, idx, delete_selection, typed, calls, stdout, err, result,
          last_parse>>

----------------------------------------------------------------------------
(* Bounds of the model *)

MaxEvents == 2

MaxStrings == 3

(* get_events' default max_results *)
MaxResults == 100

----------------------------------------------------------------------------
(* Python values *)

NoneV == [t |-> "none", s |-> <<>>]

S(tokens) == [t |-> "str", s |-> tokens]

(* Python truthiness of an optional string: None and '' are false *)
Truthy(v) == v.t = "str" /\ v.s # <<>>

(* str(i) for i >= 0: the decimal digits of i *)
DigitChar(d) == <<"0", "1", "2", "3", "4", "5", "6", "7", "8", "9">>[d + 1]

RECURSIVE ToStr(_)
ToStr(n) == IF n < 10 THEN <<DigitChar(n)>>
            ELSE ToStr(n \div 10) \o <<DigitChar(n % 10)>>

(* s.partition(sep): (head, sep, tail) around the first sep, or (s, '', '') *)
SepPositions(s, sep) == {i \in 1..Len(s) : s[i] = sep}

FirstSep(s, sep) == CHOOSE i \in SepPositions(s, sep) :
                      \A j \in SepPositions(s, sep) : i <= j

Partition(s, sep) ==
  IF SepPositions(s, sep) = {} THEN <<s, <<>>, <<>>>>
  ELSE LET i == FirstSep(s, sep)
       IN <<SubSeq(s, 1, i - 1), <<sep>>, SubSeq(s, i + 1, Len(s))>>

(* s.split(sep)[-1]: what follows the last sep *)
LastSep(s, sep) == CHOOSE i \in SepPositions(s, sep) :
                     \A j \in SepPositions(s, sep) : j <= i

SplitLast(s, sep) ==
  IF SepPositions(s, sep) = {} THEN s
  ELSE SubSeq(s, LastSep(s, sep) + 1, Len(s))

(* s.split(sep)[-3]; the feed urls of the model have at least three parts *)
RECURSIVE Split(_, _)
Split(s, sep) ==
  IF SepPositions(s, sep) = {} THEN <<s>>
  ELSE LET p == Partition(s, sep) IN <<p[1]>> \o Split(p[3], sep)

SplitThirdLast(s, sep) == LET parts == Split(s, sep)
                          IN parts[Len(parts) - 2]

(* int(text): optional sign then decimal digits; anything else is ValueError *)
Digits == {"0", "1", "2", "3", "4", "5", "6", "7", "8", "9"}

DigitValue(c) == CHOOSE d \in 0..9 : DigitChar(d) = c

RECURSIVE DecimalValue(_)
DecimalValue(s) == IF s = <<>> THEN 0
                   ELSE 10 * DecimalValue(SubSeq(s, 1, Len(s) - 1))
                        + DigitValue(s[Len(s)])

IsDecimal(s) == s # <<>> /\ \A i \in 1..Len(s) : s[i] \in Digits

IntOf(s) ==
  LET signed == s # <<>> /\ s[1] \in {"-", "+"}
      body   == IF signed THEN Tail(s) ELSE s
  IN IF ~IsDecimal(body) THEN [ok |-> FALSE, val |-> 0]
     ELSE [ok |-> TRUE,
           val |-> IF signed /\ s[1] = "-" THEN 0 - DecimalValue(body)
                   ELSE DecimalValue(body)]

----------------------------------------------------------------------------
(* The world outside the program: the clock, the remote calendars, the feeds *)

(* datetime.today().strftime(util.DATE_FORMAT), and the day after it *)
Today == "TODAY"

Tomorrow == "TOMORROW"

DateA == "2010-06-01"

DateB == "2010-06-20"

(* The values the date option takes: absent, '', ',', 'A', 'A,', ',B', 'A,B' *)
DateInputs ==
  {NoneV, S(<<>>), S(<<",">>), S(<<DateA>>), S(<<DateA, ",">>), S(<<",", DateB>>),
   S(<<DateA, ",", DateB>>)}

(* The values the cal option takes: absent, a calendar that exists, one that does not *)
WorkCal == S(<<"work">>)

NoSuchCal == S(<<"nosuch">>)

CalInputs == {NoneV, WorkCal, NoSuchCal}

WorkSrc == <<"http:", "/", "/", "host", "/", "feeds", "/",
             "work", "%40", "group.calendar.google.com", "/", "private", "/", "full">>

(* urllib.unquote on the escapes the feed urls hold *)
Unquote(s) == [i \in 1..Len(s) |-> IF s[i] = "%40" THEN "@" ELSE s[i]]

(* Events of a non-expanded feed: the k-th has its own id, title and edit link *)
Statuses == {"CONFIRMED", "CANCELED"}

EventCode(k) == <<"e">> \o ToStr(k)

EventId(k) == <<"feeds", "/", "full", "/">> \o EventCode(k)

MkEvent(k, rec, st) ==
  [id |-> S(EventId(k)), title |-> S(<<"title">> \o ToStr(k)),
   recurrence |-> rec, status |-> st,
   edit |-> <<"edit", "/">> \o EventCode(k)]

EventLists ==
  UNION {{[k \in 1..n |-> MkEvent(k, f[k][1], f[k][2])] :
            f \in [1..n -> BOOLEAN \X Statuses]} : n \in 0..MaxEvents}

(* Entries of an expanded feed: an instance of the first event's series, an   *)
(* instance of a series that is not in the input, and an event of no series.  *)
MkInstance(code, orig) ==
  [id |-> S(code), original_event |-> orig,
   edit |-> <<"edit", "/">> \o code]

Universe ==
  <<MkInstance(EventCode(1) \o <<"_i">>, S(EventCode(1))),
    MkInstance(<<"other_i">>, S(<<"other">>)),
    MkInstance(<<"single">>, NoneV)>>

(* The entries of Universe at the positions I, in feed order (ascending start time) *)
SubFeed(I) ==
  LET F[k \in 0..Len(Universe)] ==
        IF k = 0 THEN <<>>
        ELSE IF k \in I THEN Append(F[k - 1], Universe[k]) ELSE F[k - 1]
  IN F[Len(Universe)]

Feeds == {SubFeed(I) : I \in SUBSET (1..Len(Universe))}

(* What the user may type at the prompt of line 94 *)
RawInputs == {<<>>, <<"0">>, <<"1">>, <<"2">>, <<"3">>, <<"4">>, <<"5">>, <<"x">>,
              <<"1", "2">>, <<"0", "3">>}

(* The texts given to the add task *)
QuickTexts == {"Lunch with Tony on Tuesday at 12:00", "Dinner at 7pm"}

QuickArgs == UNION {[1..n -> QuickTexts] : n \in 0..MaxStrings}

----------------------------------------------------------------------------
(* The program *)

(* get_start_and_end, lines 220-238 *)
GetStartAndEnd(date) ==
  IF Truthy(date) /\ date # S(<<",">>)
  THEN LET p == Partition(date.s, ",") IN [start |-> S(p[1]), end |-> S(p[3])]
  ELSE [start |-> S(<<Today>>), end |-> NoneV]

(* get_calendar: the calendar entry of that name, or None *)
GetCalendar(cal_name) ==
  IF cal_name = WorkCal THEN [found |-> TRUE, src |-> WorkSrc]
  ELSE [found |-> FALSE, src |-> <<>>]

(* A query builder that asks for expanded recurrences whatever the caller says *)
BuildQuery_AlwaysExpanded(user, text_query, se, expand_recurrence, max_results) ==
  [user |-> user, text_query |-> text_query,
   start_min |-> IF Truthy(se.start) THEN se.start ELSE NoneV,
   start_max |-> IF Truthy(se.end) THEN se.end ELSE NoneV,
   singleevents |-> S(<<"true">>),
   orderby |-> "starttime", sortorder |-> "ascend",
   max_results |-> max_results]

(* The user part of a calendar's feed url, line 188 *)
UserOf == [src \in {WorkSrc} |-> Unquote(SplitThirdLast(src, "/"))]

(* The CalendarEventQuery get_events builds, lines 192-203 *)
BuildQuery(user, text_query, se, expand_recurrence, max_results) ==
  [user |-> user, text_query |-> text_query,
   start_min |-> IF Truthy(se.start) THEN se.start ELSE NoneV,
   start_max |-> IF Truthy(se.end) THEN se.end ELSE NoneV,
   singleevents |-> IF expand_recurrence THEN S(<<"true">>) ELSE NoneV,
   orderby |-> "starttime", sortorder |-> "ascend",
   max_results |-> max_results]

(* get_events, lines 157-205. feed is what the server answers to the query.    *)
(* ret is the returned list, or None; reqs the requests sent; out the lines     *)
(* printed; parse the get_start_and_end calls made.                             *)
GetEvents(date, title, query, calendar, expand_recurrence, feed) ==
  LET cal == GetCalendar(calendar)
      se  == GetStartAndEnd(date)
      user == IF Truthy(calendar)
              THEN UserOf[cal.src]
              ELSE <<"default">>
  IN IF Truthy(calendar) /\ ~cal.found
     THEN [ret |-> [none |-> TRUE, list |-> <<>>], reqs |-> <<>>,
           out |-> <<[line |-> "No calendar matching title", arg |-> calendar.s]>>,
           parse |-> <<>>]
     ELSE [ret |-> [none |-> FALSE, list |-> feed],
           reqs |-> <<[kind |-> "query",
                       query |-> BuildQuery(user, query, se, expand_recurrence,
                                            MaxResults),
                       title |-> title, date |-> date,
                       expand_recurrence |-> expand_recurrence]>>,
           out |-> <<>>,
           parse |-> <<[arg |-> date, start |-> se.start, end |-> se.end,
                        called |-> TRUE]>>]

(* A request id that leaves the index out *)
CorrelationId_NoIndex(i) == <<"insert-request">>

(* The request id of the i-th quick-add item, line 135 *)
CorrelationId(i) == <<"insert-request">> \o ToStr(i)

(* quick_add_event, lines 107-137: the value returned and the requests sent *)
QuickAddEvent(quick_add_strings, calendar) ==
  LET cal == GetCalendar(calendar)
      cal_uri == IF Truthy(calendar) THEN cal.src
                 ELSE <<"/", "feeds", "/", "default", "/", "private", "/", "full">>
      request_feed == [i \in 1..Len(quick_add_strings) |->
                         [op |-> "insert", batch_id |-> CorrelationId(i - 1),
                          content |-> quick_add_strings[i], quick_add |-> "true"]]
  IN IF Truthy(calendar) /\ ~cal.found
     THEN [ret |-> "None", reqs |-> <<>>]
     ELSE [ret |-> "entries",
           reqs |-> <<[kind |-> "batch", uri |-> cal_uri \o <<"/", "batch">>,
                       items |-> request_feed]>>]

(* A single-event filter that leaves out the recurrence test *)
SingleEvents_StatusOnly(evs) == SelectSeq(evs, LAMBDA e : e.status # "CANCELED")

(* A recurring-event filter that skips canceled events as line 74 does *)
RecurringEvents_NotCanceled(evs) ==
  SelectSeq(evs, LAMBDA e : e.recurrence /\ e.status # "CANCELED")

(* delete_events, lines 73-75 *)
SingleEvents(evs) ==
  SelectSeq(evs, LAMBDA e : ~e.recurrence /\ e.status # "CANCELED")

RecurringEvents(evs) == SelectSeq(evs, LAMBDA e : e.recurrence)

(* util.BaseServiceCL.Delete of the single events, line 79: one bulk delete *)
BulkDelete(entries) ==
  [kind |-> "bulk_delete", hrefs |-> [i \in 1..Len(entries) |-> entries[i].edit]]

(* gdata.service.GDataService.Delete(self, href) *)
DeleteRequest(href) == [kind |-> "delete", href |-> href]

(* An instance filter that leaves out the comparison of ids *)
MatchesSeries_AnySeries(e, event) == e.original_event.t = "str"

(* The filter of _batch_delete_recur, lines 56-57 *)
MatchesSeries(e, event) ==
  /\ e.original_event.t = "str"
  /\ e.original_event.s = SplitLast(event.id.s, "/")

(* _batch_delete_recur, lines 51-61 *)
BatchDeleteRecur(date, event, calendar, feed) ==
  LET g == GetEvents(date, event.title, NoneV, calendar, TRUE, feed)
      delete_events == SelectSeq(g.ret.list, LAMBDA e : MatchesSeries(e, event))
  IN [raised |-> g.ret.none,
      reqs |-> g.reqs \o [i \in 1..Len(delete_events) |->
                            DeleteRequest(delete_events[i].edit)],
      out |-> g.out, parse |-> g.parse]

(* A loop condition with the upper limit off by one *)
OutOfRange_UpTo5(selection) == selection < 1 \/ selection > 5

(* The condition of the while loop of line 93 *)
OutOfRange(selection) == selection < 1 \/ selection > 4

(* The texts lines 83 and 85 put in the prompt for a bound that is not set *)
DistantFuture == <<"the distant future">>

DawnOfTime == <<"the dawn of time">>

(* int(raw_input(...)) of line 94 for each text the user may type *)
Selection == [raw \in RawInputs |-> IntOf(raw)]

(* The requests reqs as log entries made for recurring event ev under choice sel *)
Logged(reqs, ev, sel) ==
  [i \in 1..Len(reqs) |-> [req |-> reqs[i], ev |-> ev, sel |-> sel]]

LatestParse(parse, old) == IF parse = <<>> THEN old ELSE parse[Len(parse)]

NoParse == [arg |-> NoneV, start |-> NoneV, end |-> NoneV, called |-> FALSE]

----------------------------------------------------------------------------
(* The state machine: one run of one task *)

NoEvents == [none |-> FALSE, list |-> <<>>]

Init ==
  /\ prompt_for_delete \in BOOLEAN
  /\ pc = "idle"
  /\ cmd = "none"
  /\ opts = [date |-> NoneV, cal |-> NoneV, args |-> <<>>]
  /\ events = NoEvents
  /\ single_events = <<>>
  /\ recurring_events = <<>>
  /\ start_date = NoneV
  /\ end_date = NoneV
  /\ idx = 0
  /\ delete_selection = 0
  /\ typed = NoneV
  /\ calls = <<>>
  /\ stdout = <<>>
  /\ err = "none"
  /\ result = "unset"
  /\ last_parse = NoParse

(* _run_list, lines 250-260, run as task name with the date option date *)
ListBody(name, date, cal, feed) ==
  LET g == GetEvents(date, NoneV, NoneV, cal, TRUE, feed)
  IN /\ pc = "idle"
     /\ cmd' = name
     /\ opts' = [date |-> date, cal |-> cal, args |-> <<>>]
     /\ events' = g.ret
     /\ calls' = Logged(g.reqs, 0, 0)
     /\ last_parse' = LatestParse(g.parse, last_parse)
     /\ IF g.ret.none
        THEN \* for e in entries, with entries None
             /\ pc' = "error"
             /\ err' = "TypeError"
             /\ stdout' = g.out
        ELSE /\ pc' = "done"
             /\ err' = "none"
             /\ stdout' = g.out \o [i \in 1..Len(g.ret.list) |->
                                     [line |-> "entry", arg |-> g.ret.list[i].id.s]]
     /\ UNCHANGED <<prompt_for_delete, single_events, recurring_events, start_date,
                    end_date, idx, delete_selection, typed, result>>

RunList ==
  /\ pc = "idle"
  /\ \E date \in DateInputs, cal \in CalInputs, feed \in Feeds :
       ListBody("list", date, cal, feed)

(* _run_list_today, lines 263-268 *)
RunListToday ==
  /\ pc = "idle"
  /\ \E cal \in CalInputs, feed \in Feeds :
       ListBody("today", S(<<Today>> \o <<",">> \o <<Tomorrow>>), cal, feed)

(* _run_add, lines 271-272, with the arguments args and the cal option cal *)
AddBody(args, cal) ==
  LET r == QuickAddEvent(args, cal)
  IN /\ pc = "idle"
     /\ cmd' = "add"
     /\ opts' = [date |-> NoneV, cal |-> cal, args |-> args]
     /\ result' = r.ret
     /\ calls' = Logged(r.reqs, 0, 0)
     /\ pc' = "done"
     /\ UNCHANGED <<prompt_for_delete, events, single_events, recurring_events,
                    start_date, end_date, idx, delete_selection, typed, stdout,
                    err, last_parse>>

RunAdd ==
  /\ pc = "idle"
  /\ \E args \in QuickArgs, cal \in CalInputs : AddBody(args, cal)

(* _run_delete, lines 275-279, and delete_events up to its loop, lines 73-89 *)
DeleteBody(date, cal, feed) ==
  LET g  == GetEvents(date, S(<<"title">>), NoneV, cal, FALSE, feed)
      se == GetStartAndEnd(date)
  IN /\ pc = "idle"
     /\ cmd' = "delete"
     /\ opts' = [date |-> date, cal |-> cal, args |-> <<>>]
     /\ events' = g.ret
     /\ stdout' = g.out
     /\ IF g.ret.none
        THEN \* [e for e in events ...], with events None
             /\ pc' = "error"
             /\ err' = "TypeError"
             /\ calls' = Logged(g.reqs, 0, 0)
             /\ last_parse' = LatestParse(g.parse, last_parse)
             /\ UNCHANGED <<single_events, recurring_events, start_date, end_date,
                            idx>>
        ELSE /\ single_events' = SingleEvents(g.ret.list)
             /\ recurring_events' = RecurringEvents(g.ret.list)
             /\ calls' = Logged(g.reqs
                                \o <<BulkDelete(SingleEvents(g.ret.list))>>, 0, 0)
             /\ last_parse' = [arg |-> date, start |-> se.start, end |-> se.end,
                               called |-> TRUE]
             /\ end_date' = IF ~Truthy(se.end) THEN S(DistantFuture)
                            ELSE se.end
             /\ start_date' = IF ~Truthy(se.start) THEN S(DawnOfTime)
                              ELSE se.start
             /\ idx' = 1
             /\ pc' = "loop"
             /\ err' = "none"
     /\ UNCHANGED <<prompt_for_delete, delete_selection, typed, result>>

RunDelete ==
  /\ pc = "idle"
  /\ \E date \in DateInputs, cal \in CalInputs, feed \in EventLists :
       DeleteBody(date, cal, feed)

(* The head of the loop of line 90, and its body when prompting is off, line 103 *)
LoopNext ==
  /\ pc = "loop"
  /\ IF idx > Len(recurring_events)
     THEN /\ pc' = "done"
          /\ UNCHANGED <<idx, delete_selection, typed, calls>>
     ELSE IF prompt_for_delete
     THEN /\ pc' = "prompt"
          /\ delete_selection' = 0
          /\ typed' = NoneV
          /\ UNCHANGED <<idx, calls>>
     ELSE /\ calls' = calls \o Logged(<<DeleteRequest(recurring_events[idx].edit)>>,
                                      idx, 0)
          /\ idx' = idx + 1
          /\ UNCHANGED <<pc, delete_selection, typed>>
  /\ UNCHANGED <<prompt_for_delete, cmd, opts, events, single_events,
                 recurring_events, start_date, end_date, stdout, err, result,
                 last_parse>>

(* One raw_input of the while loop of lines 93-95 and, once the selection is in *)
(* 1..4, the branch of lines 96-101 it selects. raw is what the user types,     *)
(* feed what the server answers if the branch queries it.                        *)
PromptBody(raw, feed) ==
  LET n     == Selection[raw]
      event == recurring_events[idx]
      b     == IF n.val = 1
               THEN BatchDeleteRecur(opts.date, event, opts.cal, feed)
               ELSE BatchDeleteRecur(start_date, event, opts.cal, feed)
  IN /\ pc = "prompt"
     /\ (n.ok /\ n.val \in {1, 3}) \/ feed = <<>>   \* no query, no answer
     /\ typed' = S(raw)
     /\ IF ~n.ok
        THEN \* int() raises ValueError
             /\ pc' = "error"
             /\ err' = "ValueError"
             /\ UNCHANGED <<idx, delete_selection, calls, stdout, last_parse>>
        ELSE /\ delete_selection' = n.val
             /\ IF OutOfRange(n.val)
                THEN UNCHANGED <<pc, idx, calls, stdout, err, last_parse>>
                ELSE IF n.val \in {1, 3}
                THEN /\ calls' = calls \o Logged(b.reqs, idx, n.val)
                     /\ stdout' = stdout \o b.out
                     /\ last_parse' = LatestParse(b.parse, last_parse)
                     /\ IF b.raised
                        THEN pc' = "error" /\ err' = "TypeError" /\ UNCHANGED idx
                        ELSE pc' = "loop" /\ idx' = idx + 1 /\ UNCHANGED err
                ELSE /\ calls' = IF n.val = 2
                                 THEN calls \o Logged(<<DeleteRequest(event.edit)>>,
                                                      idx, 2)
                                 ELSE calls
                     /\ pc' = "loop"
                     /\ idx' = idx + 1
                     /\ UNCHANGED <<stdout, err, last_parse>>
     /\ UNCHANGED <<prompt_for_delete, cmd, opts, events, single_events,
                    recurring_events, start_date, end_date, result>>

PromptRead ==
  /\ pc = "prompt"
  /\ \E raw \in RawInputs, feed \in Feeds : PromptBody(raw, feed)

Next ==
  \/ RunList
  \/ RunListToday
  \/ RunAdd
  \/ RunDelete
  \/ LoopNext
  \/ PromptRead

Spec == Init /\ [][Next]_vars

----------------------------------------------------------------------------
(* Properties *)

Terminal == pc \in {"done", "error"}

QueryCalls == {i \in 1..Len(calls) : calls[i].req.kind = "query"}

DeleteCalls == {i \in 1..Len(calls) : calls[i].req.kind = "delete"}

Unresolvable(cal) == cal = NoSuchCal

InList(e, list) == \E k \in 1..Len(list) : list[k] = e

(* delete_events has split its input *)
Partitioned == cmd = "delete" /\ pc \in {"loop", "prompt", "done"}

(* The run sent one batch request that holds the add task's texts in order *)
OneBatchOfAll ==
  /\ Len(calls) = 1
  /\ calls[1].req.kind = "batch"
  /\ LET items == calls[1].req.items
     IN /\ Len(items) = Len(opts.args)
        /\ \A i \in 1..Len(items) :
             /\ items[i].op = "insert"
             /\ items[i].content = opts.args[i]
        /\ \A i, j \in 1..Len(items) : i # j => items[i].batch_id # items[j].batch_id

(* The integers the user may type, by their text *)
EnteredInteger ==
  (<<"0">> :> 0) @@ (<<"1">> :> 1) @@ (<<"2">> :> 2) @@ (<<"3">> :> 3)
  @@ (<<"4">> :> 4) @@ (<<"5">> :> 5) @@ (<<"1", "2">> :> 12) @@ (<<"0", "3">> :> 3)

(* The requests made for a recurring event, and the recurring events given *)
SeriesCalls == SelectSeq(calls, LAMBDA c : c.ev > 0)

InputRecurring == {k \in 1..Len(events.list) : events.list[k].recurrence}

(* C1: under choice 3 the re-query of _batch_delete_recur has the end bound of *)
(* the original date range as its start_min.                                    *)
C1_Choice3StartsAtEndBound ==
  \A i \in QueryCalls :
    calls[i].sel = 3 =>
      LET original_end == IF opts.date = S(<<DateA, ",", DateB>>) THEN S(<<DateB>>)
                          ELSE IF opts.date = S(<<",", DateB>>) THEN S(<<DateB>>)
                          ELSE NoneV
      IN original_end # NoneV => calls[i].req.query.start_min = original_end

(* C2: single_events and recurring_events partition the input of delete_events, *)
(* an event's list being decided by its recurrence rule alone.                   *)
C2_PartitionByRecurrenceOnly ==
  Partitioned =>
    \A k \in 1..Len(events.list) :
      LET e == events.list[k]
      IN /\ InList(e, recurring_events) <=> e.recurrence
         /\ InList(e, single_events) <=> ~e.recurrence

(* C2, amended: the two lists are disjoint; recurring_events holds exactly the   *)
(* events with a recurrence rule, whatever their status; single_events holds     *)
(* exactly the events with no recurrence rule whose status is not CANCELED; an   *)
(* event with no recurrence rule and status CANCELED is in neither list.         *)
C2_PartitionExceptCanceledSingles ==
  Partitioned =>
    /\ \A k \in 1..Len(events.list) :
         LET e == events.list[k]
         IN /\ InList(e, recurring_events) <=> e.recurrence
            /\ InList(e, single_events) <=> (~e.recurrence /\ e.status # "CANCELED")
            /\ ~(InList(e, recurring_events) /\ InList(e, single_events))
    /\ Len(recurring_events) + Len(single_events)
         = Cardinality({k \in 1..Len(events.list) :
                          events.list[k].recurrence
                          \/ events.list[k].status # "CANCELED"})

C2_Witness ==
  /\ Partitioned
  /\ \E j, k \in 1..Len(events.list) :
       /\ ~events.list[j].recurrence /\ events.list[j].status = "CANCELED"
       /\ events.list[k].recurrence /\ events.list[k].status = "CANCELED"
       /\ InList(events.list[k], recurring_events)

(* C3: with a calendar name that does not resolve, list, today and delete end    *)
(* without an error, having printed the diagnostic and sent no request; add      *)
(* returns None and sends no request.                                            *)
C3_UnresolvableCalendarNotFatal ==
  (Terminal /\ Unresolvable(opts.cal)) =>
    /\ calls = <<>>
    /\ cmd \in {"list", "today", "delete"} =>
         /\ pc = "done"
         /\ err = "none"
         /\ stdout = <<[line |-> "No calendar matching title", arg |-> opts.cal.s]>>
    /\ cmd = "add" => result = "None"

(* C4: get_start_and_end gives (today, None) for None and for ',', (A, B) for    *)
(* 'A,B', (A, None) for 'A,' and ('', B) for ',B'.                               *)
C4_ParseTable ==
  last_parse.called =>
    LET arg == last_parse.arg
        got == <<last_parse.start, last_parse.end>>
    IN /\ arg \in {NoneV, S(<<",">>)} => got = <<S(<<Today>>), NoneV>>
       /\ \A a, b \in {DateA, DateB, Today, Tomorrow} :
            /\ arg = S(<<a, ",", b>>) => got = <<S(<<a>>), S(<<b>>)>>
            /\ arg = S(<<a, ",">>) => got = <<S(<<a>>), NoneV>>
            /\ arg = S(<<",", b>>) => got = <<S(<<>>), S(<<b>>)>>

(* C5: every delete sent under choice 1 for a series targets an entry of the     *)
(* expanded feed whose original event is that series.                            *)
C5_Choice1DeletesOnlyOwnInstances ==
  \A i \in DeleteCalls :
    calls[i].sel = 1 =>
      \E k \in 1..Len(events.list), u \in 1..Len(Universe) :
        /\ events.list[k] = recurring_events[calls[i].ev]
        /\ Universe[u].edit = calls[i].req.href
        /\ Universe[u].original_event = S(EventCode(k))

C5_Witness == \E i \in DeleteCalls : calls[i].sel = 1

(* C6: quick_add_event with N strings sends exactly one batch request, holding *)
(* one insertion per string in input order, their ids pairwise distinct.        *)
C6_OneBatchOfNDistinctIds == (cmd = "add" /\ pc = "done") => OneBatchOfAll

(* C6, amended: quick_add_event with N strings, when no calendar is named or    *)
(* the named calendar resolves, sends exactly one batch request, holding one    *)
(* insertion per string in input order, their ids pairwise distinct; when the   *)
(* named calendar does not resolve it sends no request and returns None.        *)
C6_OneBatchUnlessUnresolvable ==
  (cmd = "add" /\ pc = "done") =>
    IF Unresolvable(opts.cal) THEN calls = <<>> /\ result = "None"
    ELSE OneBatchOfAll /\ result = "entries"

C6_Witness ==
  /\ cmd = "add" /\ pc = "done"
  /\ Len(opts.args) >= 2
  /\ opts.cal = WorkCal
  /\ Len(calls) = 1

(* C7: at the prompt for a recurring event, an integer outside 1..4 sends no    *)
(* request and leads back to the prompt for the same event; the first integer   *)
(* in 1..4 is acted on; an entry that is no integer ends the run with an error, *)
(* the remaining events untouched; choice 4 sends no request and moves on to    *)
(* the next recurring event.                                                    *)
C7_PromptStep ==
  /\ (pc = "prompt" /\ typed' # NoneV /\ typed'.s \notin DOMAIN EnteredInteger) =>
       /\ pc' = "error" /\ err' = "ValueError"
       /\ calls' = calls /\ idx' = idx
  /\ (pc = "prompt" /\ typed' # NoneV /\ typed'.s \in DOMAIN EnteredInteger) =>
       LET n == EnteredInteger[typed'.s]
       IN /\ n \notin 1..4 => pc' = "prompt" /\ calls' = calls /\ idx' = idx
          /\ n \in 1..4 =>
               /\ pc' = "loop" /\ idx' = idx + 1 /\ err' = "none"
               /\ delete_selection' = n
               /\ Len(calls') >= Len(calls)
               /\ SubSeq(calls', 1, Len(calls)) = calls
               /\ \A i \in (Len(calls) + 1)..Len(calls') :
                    calls'[i].ev = idx /\ calls'[i].sel = n
          /\ n = 2 => Len(calls') = Len(calls) + 1
          /\ n = 4 => calls' = calls
  /\ pc = "prompt" => typed' # NoneV
  /\ pc = "error" => UNCHANGED vars

(* C7, as a property of every step of the run *)
C7_PromptLoop == [][C7_PromptStep]_vars

C7_Witness ==
  /\ pc = "prompt" /\ idx = 2
  /\ delete_selection = 5
  /\ \A i \in 1..Len(calls) : calls[i].ev = 0
  /\ Len(recurring_events) = 2

(* C8: with prompting off, each recurring event of the input is deleted by      *)
(* exactly one delete of its own edit link, the request choice 2 sends; there   *)
(* is no prompt, no re-query and no delete of an instance; at the end there are *)
(* as many such deletes as recurring events in the input.                       *)
C8_NoPromptDeletesEachSeriesOnce ==
  /\ (cmd = "delete" /\ ~prompt_for_delete) =>
       /\ pc # "prompt" /\ typed = NoneV
       /\ \A i \in 1..Len(SeriesCalls) :
            /\ SeriesCalls[i].ev = i
            /\ SeriesCalls[i].req =
                 [kind |-> "delete", href |-> recurring_events[i].edit]
            /\ InList(recurring_events[i], events.list)
       /\ pc = "loop" => Len(SeriesCalls) = idx - 1
       /\ pc = "done" => Len(SeriesCalls) = Cardinality(InputRecurring)
  /\ \A i \in DeleteCalls :
       calls[i].sel = 2 =>
         calls[i].req = [kind |-> "delete",
                         href |-> recurring_events[calls[i].ev].edit]

C8_Witness ==
  /\ cmd = "delete" /\ ~prompt_for_delete /\ pc = "done"
  /\ Cardinality(InputRecurring) = 2
  /\ Len(SeriesCalls) = 2

(* C9: every query get_events sends has start_min set to the parsed start       *)
(* bound exactly when that bound is not empty, start_max likewise for the end   *)
(* bound, ascending order by start time, and singleevents=true exactly when     *)
(* expand_recurrence is true: true for list and today, false for the query of   *)
(* the delete task; list with date 'A,B' and no calendar queries the primary    *)
(* calendar with start_min=A, start_max=B and singleevents=true.                *)
C9_QueryFields ==
  /\ \A i \in QueryCalls :
       LET r  == calls[i].req
           q  == r.query
           se == GetStartAndEnd(r.date)
       IN /\ q.start_min = IF se.start \in {NoneV, S(<<>>)} THEN NoneV ELSE se.start
          /\ q.start_max = IF se.end \in {NoneV, S(<<>>)} THEN NoneV ELSE se.end
          /\ q.orderby = "starttime" /\ q.sortorder = "ascend"
          /\ q.singleevents = IF r.expand_recurrence THEN S(<<"true">>) ELSE NoneV
          /\ cmd \in {"list", "today"} => r.expand_recurrence /\ r.date = opts.date
          /\ (cmd = "delete" /\ calls[i].ev = 0) =>
               ~r.expand_recurrence /\ r.date = opts.date
  /\ (cmd = "list" /\ opts.date = S(<<DateA, ",", DateB>>) /\ opts.cal = NoneV) =>
       /\ Len(calls) = 1
       /\ calls[1].req.kind = "query"
       /\ calls[1].req.query.user = <<"default">>
       /\ calls[1].req.query.start_min = S(<<DateA>>)
       /\ calls[1].req.query.start_max = S(<<DateB>>)
       /\ calls[1].req.query.singleevents = S(<<"true">>)
  /\ (cmd = "today" /\ ~Unresolvable(opts.cal)) =>
       /\ calls[1].req.query.start_min = S(<<Today>>)
       /\ calls[1].req.query.start_max = S(<<Tomorrow>>)

C9_Witness ==
  /\ cmd = "list" /\ pc = "done"
  /\ opts.date = S(<<DateA, ",", DateB>>) /\ opts.cal = NoneV
  /\ Len(calls) = 1

(* C10: no query sent during delete_events has 'the dawn of time' or            *)
(* 'the distant future' as its start_min or start_max.                          *)
C10_PlaceholdersNeverSent ==
  \A i \in QueryCalls :
    /\ calls[i].req.query.start_min \notin {S(DawnOfTime), S(DistantFuture)}
    /\ calls[i].req.query.start_max \notin {S(DawnOfTime), S(DistantFuture)}

====
